---- MODULE Spec2Model ----
(***************************************************************************)
(* Content-addressable object store of objectstore/internal/storage:       *)
(* PutObject, GetObject, DeleteObject, HeadObject and ListObjects over a   *)
(* temp directory, a sharded blob tree and the SQLite table `objects`.     *)
(* Every request is a call that runs its statements one at a time, so any  *)
(* number of calls interleave between file-system and database operations. *)
(* A second specification, Cluster, puts the round-robin load balancer of  *)
(* cmd/load-balancer in front of the nodes that start.sh launches.         *)
(***************************************************************************)
EXTENDS Integers, Sequences, FiniteSets, TLC

\* ---------------------------------------------------------------- bounds
\* Number of requests in one behaviour.
MaxCalls == 3
\* Number of requests that may be in flight at once.
MaxInFlight == 2
\* Longest request body, in bytes.
MaxLen == 1
\* Hex characters of a digest in the model (64 for SHA-256).
HashLen == 4

Calls == 1..MaxCalls
\* Byte values a body is made of.
Bytes == {0, 1}
\* Names are byte strings; "" is the empty sequence.
Buckets == {<<97>>, <<98>>}
Keys == {<<120>>, <<120, 121>>}
Payloads == UNION {[1..n -> Bytes] : n \in 0..MaxLen}

VARIABLES
    tmp,        \* files under TmpDir: name -> bytes
    dirs,       \* shard directories under ObjDir
    objects,    \* files under ObjDir: <<aa, bb, hash>> -> bytes
    db,         \* rows of table objects
    call,       \* per request in flight: operation, arguments, locals, position
    ret,        \* the request that returned last: arguments and result
    committed,  \* history: bodies whose rename into ObjDir succeeded
    last,       \* history: per (bucket,key), the last successful upsert or delete
    nodes,      \* load balancer: the ordered backend list
    currentIndex, \* load balancer: the rotating position
    mu,         \* load balancer: the request holding the mutex, 0 when free
    req,        \* load balancer: per request in flight, its position and locals
    picked,     \* history: what pickNode read, in the order the mutex was taken
    data        \* per DATA_DIR of a node: its blob files and its table

store == <<tmp, dirs, objects, db, call, ret, committed, last>>
cluster == <<nodes, currentIndex, mu, req, picked, data>>
vars == <<store, cluster>>

\* ------------------------------------------------------------ error values
NoError == "nil"
ErrNotFound == "ErrNotFound"
IOError == "IOError"
IndexError == "IndexError"

\* ------------------------------------------------------------- pure helpers
RECURSIVE Pow(_, _)
Pow(b, e) == IF e = 0 THEN 1 ELSE b * Pow(b, e - 1)

HashMod == Pow(16, HashLen)
HashBase == Cardinality(Bytes) + 1

\* sha256.New(): the empty accumulator.
HashNew == 0
\* h.Write(one byte), as io.MultiWriter feeds it.
HashWrite(h, byte) == (h * HashBase + byte + 1) % HashMod
\* fmt.Sprintf("%x", h.Sum(nil)): the digest as HashLen hex characters.
HashSum(h) == [i \in 1..HashLen |-> (h \div Pow(16, i - 1)) % 16]

RECURSIVE HashFeed(_, _)
HashFeed(h, bytes) ==
    IF bytes = <<>> THEN h ELSE HashFeed(HashWrite(h, Head(bytes)), Tail(bytes))
\* The digest of a whole byte sequence.
Hash(bytes) == HashSum(HashFeed(HashNew, bytes))

\* filepath.Join(ObjDir, hash[:2], hash[2:4])
FinalDir(hash) == <<SubSeq(hash, 1, 2), SubSeq(hash, 3, 4)>>
\* filepath.Join(finalDir, hash)
FinalFile(hash) == <<SubSeq(hash, 1, 2), SubSeq(hash, 3, 4), hash>>
\* os.MkdirAll(finalDir): both levels.
MkdirAll(ds, hash) == ds \cup {<<SubSeq(hash, 1, 2)>>, FinalDir(hash)}

\* filepath.Join(TmpDir, uuid.New().String()): a fresh name per call.
TmpFile(c) == <<c>>

NoFiles == [x \in {} |-> <<>>]
Remove(files, name) == [x \in DOMAIN files \ {name} |-> files[x]]
Create(files, name) == (name :> <<>>) @@ files
\* Mutant: the writer feeds the digest only, the file gets nothing.
WriteByteLost(files, name, byte) == files

WriteByte(files, name, byte) ==
    IF name \in DOMAIN files
    THEN [files EXCEPT ![name] = Append(@, byte)]
    ELSE files
\* Mutant: the temp file is copied onto the end of whatever is at the destination.
RenameAppend(objs, files, name, path) ==
    IF path \in DOMAIN objs
    THEN [objs EXCEPT ![path] = @ \o files[name]]
    ELSE (path :> files[name]) @@ objs

\* os.Rename(tmpFile, finalFile): replaces the destination atomically.
Rename(objs, files, name, path) == (path :> files[name]) @@ objs

\* Byte-wise (BINARY collation) order on names.
RECURSIVE StrLess(_, _)
StrLess(s, t) ==
    IF t = <<>> THEN FALSE
    ELSE IF s = <<>> THEN TRUE
    ELSE IF Head(s) # Head(t) THEN Head(s) < Head(t)
    ELSE StrLess(Tail(s), Tail(t))

\* Mutant: ORDER BY key, bucket.
RowLessByKey(r, s) ==
    \/ StrLess(r.key, s.key)
    \/ r.key = s.key /\ StrLess(r.bucket, s.bucket)

\* ORDER BY bucket, key
RowLess(r, s) ==
    \/ StrLess(r.bucket, s.bucket)
    \/ r.bucket = s.bucket /\ StrLess(r.key, s.key)

RECURSIVE OrderBy(_)
OrderBy(rows) ==
    IF rows = {} THEN <<>>
    ELSE LET m == CHOOSE r \in rows : \A s \in rows \ {r} : RowLess(r, s)
         IN  <<m>> \o OrderBy(rows \ {m})

\* ------------------------------------------------------------ SQL statements
Row(bucket, key, hash, size) ==
    [bucket |-> bucket, key |-> key, hash |-> hash, size |-> size]

\* Mutant: the hash is replaced, the size of an existing row is kept.
UpsertKeepSize(rows, bucket, key, hash, size) ==
    LET old == {r \in rows : r.bucket = bucket /\ r.key = key}
    IN  (rows \ old) \cup
            (IF old = {}
             THEN {Row(bucket, key, hash, size)}
             ELSE {Row(bucket, key, hash, r.size) : r \in old})

\* Mutant: INSERT OR IGNORE, an existing row wins.
UpsertIgnore(rows, bucket, key, hash, size) ==
    IF \E r \in rows : r.bucket = bucket /\ r.key = key
    THEN rows
    ELSE rows \cup {Row(bucket, key, hash, size)}

\* INSERT OR REPLACE INTO objects(bucket,key,hash,size), PRIMARY KEY(bucket,key)
Upsert(rows, bucket, key, hash, size) ==
    {r \in rows : ~(r.bucket = bucket /\ r.key = key)}
        \cup {Row(bucket, key, hash, size)}

\* SELECT ... FROM objects WHERE bucket=? AND key=?
Select(rows, bucket, key) == {r \in rows : r.bucket = bucket /\ r.key = key}

\* Mutant: DELETE ... WHERE key=?
DeleteByKey(rows, bucket, key) == {r \in rows : r.key # key}

\* DELETE FROM objects WHERE bucket=? AND key=?
Delete(rows, bucket, key) == rows \ Select(rows, bucket, key)

\* SELECT bucket, key, hash, size FROM objects [WHERE bucket=?] ORDER BY bucket, key
ListQuery(rows, bucket) ==
    IF bucket # <<>>
    THEN OrderBy({r \in rows : r.bucket = bucket})
    ELSE OrderBy(rows)

\* ------------------------------------------------------------------- state
Never == [what |-> "never", body |-> <<>>]
Deleted == [what |-> "deleted", body |-> <<>>]
Put(body) == [what |-> "put", body |-> body]

\* A request that has not arrived; Done is one that returned or died.
Idle ==
    [op |-> "idle", pc |-> "idle", bucket |-> <<>>, key |-> <<>>, body |-> <<>>,
     size |-> 0, h |-> HashNew, hash |-> <<>>, seen |-> Never]
Done == [Idle EXCEPT !.pc = "done"]

NoReturn ==
    [op |-> "none", id |-> 0, bucket |-> <<>>, key |-> <<>>, body |-> <<>>,
     hash |-> <<>>, err |-> NoError, val |-> <<>>, seen |-> Never, fault |-> FALSE]
\* What request c, with locals r, hands back to its caller. fault tells that the
\* file system or the database failed under it.
Return(c, r, err, val, fault) ==
    [op |-> r.op, id |-> c, bucket |-> r.bucket, key |-> r.key, body |-> r.body,
     hash |-> r.hash, err |-> err, val |-> val, seen |-> r.seen, fault |-> fault]

\* ---------------------------------------------- load balancer and its nodes
\* Number of requests the load balancer takes in one behaviour.
MaxRequests == 3
Requests == 1..MaxRequests

\* The addresses the load balancer's source lists (commented out there) and
\* start.sh launches, in that order.
Backends ==
    <<"http://localhost:8081", "http://localhost:8082", "http://localhost:8083">>
\* Backend lists: the empty one the source is left with, and each prefix of
\* the listed addresses.
NodeLists == {SubSeq(Backends, 1, n) : n \in 0..Len(Backends)}

\* The backend list as the source declares it: every address commented out.
ConfiguredNodes == <<>>

\* start.sh: the DATA_DIR each node is launched with.
DataDir(node) ==
    CASE node = Backends[1] -> "./data/node1"
      [] node = Backends[2] -> "./data/node2"
      [] node = Backends[3] -> "./data/node3"
DataDirs == {DataDir(Backends[i]) : i \in 1..Len(Backends)}

\* What one DATA_DIR holds: the files under objects/ and the rows of metadata.db.
Store(objs, rows) == [objects |-> objs, db |-> rows]

ReqIdle ==
    [pc |-> "idle", op |-> "idle", bucket |-> <<>>, key |-> <<>>, body |-> <<>>,
     order |-> 0, node |-> ""]
ReqDone == [ReqIdle EXCEPT !.pc = "done"]

\* InitDirs and initDB on an empty disk.
StoreInit ==
    /\ tmp = NoFiles
    /\ dirs = {}
    /\ objects = NoFiles
    /\ db = {}
    /\ call = [c \in Calls |-> Idle]
    /\ ret = NoReturn
    /\ committed = {}
    /\ last = [p \in Buckets \X Keys |-> Never]

\* The load balancer before its first request, over the backend list given,
\* every node freshly started.
LoadBalancerInit(list) ==
    /\ nodes = list
    /\ currentIndex = 0
    /\ mu = 0
    /\ req = [r \in Requests |-> ReqIdle]
    /\ picked = <<>>
    /\ data = [d \in DataDirs |-> Store(NoFiles, {})]

\* One node, addressed directly.
Init == StoreInit /\ LoadBalancerInit(<<>>)

InFlight == {c \in Calls : call[c].pc \notin {"idle", "done"}}

\* Requests are numbered in the order they arrive.
CanStart(c) ==
    /\ call[c].pc = "idle"
    /\ IF c = 1 THEN TRUE ELSE call[c - 1].pc # "idle"
    /\ Cardinality(InFlight) < MaxInFlight

Arrive(op, bucket, key, body) ==
    [Idle EXCEPT !.op = op, !.pc = "run", !.bucket = bucket, !.key = key,
                 !.body = body]
\* The same, for an operation that reads or writes the row of (bucket,key) on arrival.
ArriveAt(op, bucket, key) ==
    [Arrive(op, bucket, key, <<>>) EXCEPT !.seen = last[<<bucket, key>>]]

\* ---------------------------------------------------------------- PutObject
\* Lines 44-48: os.Create of a fresh temp file; the request arrives here.
PutCreate(c, bucket, key, body) ==
    /\ CanStart(c)
    /\ \/ /\ tmp' = Create(tmp, TmpFile(c))
          /\ call' = [call EXCEPT ![c] =
                [Arrive("put", bucket, key, body) EXCEPT !.pc = "copy"]]
          /\ ret' = ret
       \/ /\ tmp' = tmp
          /\ call' = [call EXCEPT ![c] = Done]
          /\ ret' = Return(c, Arrive("put", bucket, key, body), IOError, <<>>, TRUE)
    /\ UNCHANGED <<dirs, objects, db, committed, last, cluster>>

\* Mutant: a failed copy returns without removing the temp file.
PutCopyNoCleanup(c) ==
    /\ call[c].op = "put" /\ call[c].pc = "copy"
    /\ \/ /\ call[c].size < Len(call[c].body)
          /\ tmp' = WriteByte(tmp, TmpFile(c), call[c].body[call[c].size + 1])
          /\ call' = [call EXCEPT
                ![c].size = @ + 1,
                ![c].h = HashWrite(@, call[c].body[call[c].size + 1])]
          /\ ret' = ret
       \/ /\ tmp' = tmp
          /\ call' = [call EXCEPT ![c] = Done]
          /\ ret' = Return(c, call[c], IOError, <<>>, TRUE)
    /\ UNCHANGED <<dirs, objects, db, committed, last, cluster>>

\* Lines 51-57: io.Copy through io.MultiWriter(f, h), one byte per step; a read
\* or write error closes and removes the temp file.
PutCopy(c) ==
    /\ call[c].op = "put" /\ call[c].pc = "copy"
    /\ \/ /\ call[c].size < Len(call[c].body)
          /\ tmp' = WriteByte(tmp, TmpFile(c), call[c].body[call[c].size + 1])
          /\ call' = [call EXCEPT
                ![c].size = @ + 1,
                ![c].h = HashWrite(@, call[c].body[call[c].size + 1])]
          /\ ret' = ret
       \/ /\ tmp' = Remove(tmp, TmpFile(c))
          /\ call' = [call EXCEPT ![c] = Done]
          /\ ret' = Return(c, call[c], IOError, <<>>, TRUE)
    /\ UNCHANGED <<dirs, objects, db, committed, last, cluster>>

\* Mutant: one Read is taken for the whole stream.
PutMkdirShortRead(c) ==
    /\ call[c].op = "put" /\ call[c].pc = "copy"
    /\ dirs' = MkdirAll(dirs, HashSum(call[c].h))
    /\ call' = [call EXCEPT ![c].pc = "rename", ![c].hash = HashSum(call[c].h)]
    /\ UNCHANGED <<tmp, objects, db, ret, committed, last, cluster>>

\* Lines 60-71: the stream is exhausted: f.Close(), the digest, then
\* os.MkdirAll of the shard directory; either failing removes the temp file.
PutMkdir(c) ==
    /\ call[c].op = "put" /\ call[c].pc = "copy"
    /\ call[c].size = Len(call[c].body)
    /\ \/ /\ dirs' = MkdirAll(dirs, HashSum(call[c].h))
          /\ tmp' = tmp
          /\ call' = [call EXCEPT ![c].pc = "rename", ![c].hash = HashSum(call[c].h)]
          /\ ret' = ret
       \/ /\ dirs' = dirs
          /\ tmp' = Remove(tmp, TmpFile(c))
          /\ call' = [call EXCEPT ![c] = Done]
          /\ ret' = Return(c, call[c], IOError, <<>>, TRUE)
    /\ UNCHANGED <<objects, db, committed, last, cluster>>

\* Mutant: a rename that refuses an existing destination.
RenameNoReplace(objs, files, dirset, name, hash) ==
    /\ name \in DOMAIN files
    /\ FinalDir(hash) \in dirset
    /\ FinalFile(hash) \notin DOMAIN objs

\* os.Rename succeeds when the source and the destination directory exist,
\* whether or not a file is already at the destination.
RenameOK(objs, files, dirset, name, hash) ==
    name \in DOMAIN files /\ FinalDir(hash) \in dirset

\* Mutant: the error of os.Rename is not looked at.
PutRenameUnchecked(c) ==
    /\ call[c].op = "put" /\ call[c].pc = "rename"
    /\ \/ /\ objects' = Rename(objects, tmp, TmpFile(c), FinalFile(call[c].hash))
          /\ tmp' = Remove(tmp, TmpFile(c))
          /\ committed' = committed \cup {tmp[TmpFile(c)]}
       \/ UNCHANGED <<tmp, objects, committed>>
    /\ call' = [call EXCEPT ![c].pc = "upsert"]
    /\ UNCHANGED <<dirs, db, ret, last, cluster>>

\* Mutant: the blob is kept under the temp file's name, not under its digest.
PutRenameByName(c) ==
    /\ call[c].op = "put" /\ call[c].pc = "rename"
    /\ objects' = Rename(objects, tmp, TmpFile(c),
                         <<SubSeq(call[c].hash, 1, 2), SubSeq(call[c].hash, 3, 4),
                           TmpFile(c)>>)
    /\ tmp' = Remove(tmp, TmpFile(c))
    /\ committed' = committed \cup {tmp[TmpFile(c)]}
    /\ call' = [call EXCEPT ![c].pc = "upsert"]
    /\ UNCHANGED <<dirs, db, ret, last, cluster>>

\* Lines 73-79: os.Rename of the temp file onto the addressed path.
PutRename(c) ==
    /\ call[c].op = "put" /\ call[c].pc = "rename"
    /\ \/ IF RenameOK(objects, tmp, dirs, TmpFile(c), call[c].hash)
          THEN /\ objects' = Rename(objects, tmp, TmpFile(c), FinalFile(call[c].hash))
               /\ tmp' = Remove(tmp, TmpFile(c))
               /\ committed' = committed \cup {tmp[TmpFile(c)]}
               /\ call' = [call EXCEPT ![c].pc = "upsert"]
               /\ ret' = ret
          ELSE /\ tmp' = Remove(tmp, TmpFile(c))
               /\ call' = [call EXCEPT ![c] = Done]
               /\ ret' = Return(c, call[c], IOError, <<>>, FALSE)
               /\ UNCHANGED <<objects, committed>>
       \/ /\ tmp' = Remove(tmp, TmpFile(c))
          /\ call' = [call EXCEPT ![c] = Done]
          /\ ret' = Return(c, call[c], IOError, <<>>, TRUE)
          /\ UNCHANGED <<objects, committed>>
    /\ UNCHANGED <<dirs, db, last, cluster>>

\* Mutant: the statement that fails has written its row all the same.
PutUpsertDirty(c) ==
    /\ call[c].op = "put" /\ call[c].pc = "upsert"
    /\ LET r == [call[c] EXCEPT !.seen = last[<<call[c].bucket, call[c].key>>]]
       IN  /\ db' = Upsert(db, r.bucket, r.key, r.hash, r.size)
           /\ \/ /\ last' = [last EXCEPT ![<<r.bucket, r.key>>] = Put(r.body)]
                 /\ ret' = Return(c, r, NoError, r.hash, FALSE)
              \/ /\ ret' = Return(c, r, IndexError, <<>>, TRUE)
                 /\ last' = last
    /\ call' = [call EXCEPT ![c] = Done]
    /\ UNCHANGED <<tmp, dirs, objects, committed, cluster>>

\* Mutant: an overwrite removes the blob of the row it replaces.
PutUpsertCollect(c) ==
    /\ call[c].op = "put" /\ call[c].pc = "upsert"
    /\ LET r == [call[c] EXCEPT !.seen = last[<<call[c].bucket, call[c].key>>]]
           old == {FinalFile(x.hash) : x \in Select(db, r.bucket, r.key)}
                        \ {FinalFile(r.hash)}
       IN  \/ /\ db' = Upsert(db, r.bucket, r.key, r.hash, r.size)
              /\ objects' = [path \in DOMAIN objects \ old |-> objects[path]]
              /\ last' = [last EXCEPT ![<<r.bucket, r.key>>] = Put(r.body)]
              /\ ret' = Return(c, r, NoError, r.hash, FALSE)
           \/ /\ ret' = Return(c, r, IndexError, <<>>, TRUE)
              /\ UNCHANGED <<db, last, objects>>
    /\ call' = [call EXCEPT ![c] = Done]
    /\ UNCHANGED <<tmp, dirs, committed, cluster>>

\* Lines 82-88: INSERT OR REPLACE, then return the digest.
PutUpsert(c) ==
    /\ call[c].op = "put" /\ call[c].pc = "upsert"
    /\ LET r == [call[c] EXCEPT !.seen = last[<<call[c].bucket, call[c].key>>]]
       IN  \/ /\ db' = Upsert(db, r.bucket, r.key, r.hash, r.size)
              /\ last' = [last EXCEPT ![<<r.bucket, r.key>>] = Put(r.body)]
              /\ ret' = Return(c, r, NoError, r.hash, FALSE)
           \/ /\ ret' = Return(c, r, IndexError, <<>>, TRUE)
              /\ UNCHANGED <<db, last>>
    /\ call' = [call EXCEPT ![c] = Done]
    /\ UNCHANGED <<tmp, dirs, objects, committed, cluster>>

\* ---------------------------------------------------------------- GetObject
\* row.Scan(&hash): the hash of the row QueryRow yields, "" when there is none.
ScanHash(rows) == IF rows = {} THEN <<>> ELSE (CHOOSE r \in rows : TRUE).hash

\* os.Open(objPath): the bytes the returned reader yields.
Open(objs, path) == objs[path]

\* Lines 93-97: SELECT hash; any Scan error, a database failure included, is
\* returned as ErrNotFound.
GetQuery(c, bucket, key) ==
    /\ CanStart(c)
    /\ LET r == ArriveAt("get", bucket, key)
           rows == Select(db, bucket, key)
       IN  \/ /\ rows # {}
              /\ call' = [call EXCEPT ![c] =
                    [r EXCEPT !.pc = "open", !.hash = ScanHash(rows)]]
              /\ ret' = ret
           \/ /\ rows = {}
              /\ call' = [call EXCEPT ![c] = Done]
              /\ ret' = Return(c, r, ErrNotFound, <<>>, FALSE)
           \/ /\ call' = [call EXCEPT ![c] = Done]
              /\ ret' = Return(c, r, ErrNotFound, <<>>, TRUE)
    /\ UNCHANGED <<tmp, dirs, objects, db, committed, last, cluster>>

\* Lines 99-104: os.Open of the addressed path; any error is ErrNotFound.
GetOpen(c) ==
    /\ call[c].op = "get" /\ call[c].pc = "open"
    /\ \/ IF FinalFile(call[c].hash) \in DOMAIN objects
          THEN ret' = Return(c, call[c], NoError,
                             Open(objects, FinalFile(call[c].hash)), FALSE)
          ELSE ret' = Return(c, call[c], ErrNotFound, <<>>, FALSE)
       \/ ret' = Return(c, call[c], ErrNotFound, <<>>, TRUE)
    /\ call' = [call EXCEPT ![c] = Done]
    /\ UNCHANGED <<tmp, dirs, objects, db, committed, last, cluster>>

\* ------------------------------------------------------------- DeleteObject
\* Mutant: the blob of the deleted record is removed with it.
DeleteObjectAndBlob(c, bucket, key) ==
    /\ CanStart(c)
    /\ LET r == ArriveAt("delete", bucket, key)
           rows == Select(db, bucket, key)
       IN  /\ db' = Delete(db, bucket, key)
           /\ IF rows = {}
              THEN /\ ret' = Return(c, r, ErrNotFound, <<>>, FALSE)
                   /\ UNCHANGED <<last, objects>>
              ELSE /\ ret' = Return(c, r, NoError, <<>>, FALSE)
                   /\ last' = [last EXCEPT ![<<bucket, key>>] = Deleted]
                   /\ objects' = Remove(objects, FinalFile(ScanHash(rows)))
    /\ call' = [call EXCEPT ![c] = Done]
    /\ UNCHANGED <<tmp, dirs, committed, cluster>>

\* Lines 108-118: one DELETE statement; no row affected is ErrNotFound.
DeleteObject(c, bucket, key) ==
    /\ CanStart(c)
    /\ LET r == ArriveAt("delete", bucket, key)
           affected == Cardinality(db \ Delete(db, bucket, key))
       IN  \/ /\ db' = Delete(db, bucket, key)
              /\ IF affected = 0
                 THEN /\ ret' = Return(c, r, ErrNotFound, <<>>, FALSE)
                      /\ last' = last
                 ELSE /\ ret' = Return(c, r, NoError, <<>>, FALSE)
                      /\ last' = [last EXCEPT ![<<bucket, key>>] = Deleted]
           \/ /\ ret' = Return(c, r, IndexError, <<>>, TRUE)
              /\ UNCHANGED <<db, last>>
    /\ call' = [call EXCEPT ![c] = Done]
    /\ UNCHANGED <<tmp, dirs, objects, committed, cluster>>

\* --------------------------------------------------------------- HeadObject
ObjectMeta(bucket, key, hash, size) ==
    [Bucket |-> bucket, Key |-> key, Hash |-> hash, Size |-> size]

\* row.Scan(&hash, &size) of the row QueryRow yields.
ScanMeta(rows, bucket, key) ==
    LET r == CHOOSE r \in rows : TRUE IN ObjectMeta(bucket, key, r.hash, r.size)

\* Lines 121-134: SELECT hash, size; any Scan error is ErrNotFound.
HeadObject(c, bucket, key) ==
    /\ CanStart(c)
    /\ LET r == ArriveAt("head", bucket, key)
           rows == Select(db, bucket, key)
       IN  \/ IF rows # {}
              THEN ret' = Return(c, r, NoError, ScanMeta(rows, bucket, key), FALSE)
              ELSE ret' = Return(c, r, ErrNotFound, <<>>, FALSE)
           \/ ret' = Return(c, r, ErrNotFound, <<>>, TRUE)
    /\ call' = [call EXCEPT ![c] = Done]
    /\ UNCHANGED <<tmp, dirs, objects, db, committed, last, cluster>>

\* -------------------------------------------------------------- ListObjects
\* Lines 155-161: one ObjectMeta per row, in the order of the query.
ScanAll(rows) ==
    [i \in 1..Len(rows) |->
        ObjectMeta(rows[i].bucket, rows[i].key, rows[i].hash, rows[i].size)]

\* Lines 137-164: bucket "" lists every row. A failed Query or Scan is
\* returned; rows.Err() is not looked at, so an iteration the database cuts
\* short returns the rows read so far with a nil error.
ListObjects(c, bucket) ==
    /\ CanStart(c)
    /\ LET r == Arrive("list", bucket, <<>>, <<>>)
           all == ScanAll(ListQuery(db, bucket))
       IN  \/ ret' = Return(c, r, NoError, all, FALSE)
           \/ ret' = Return(c, r, IndexError, <<>>, TRUE)
           \/ \E n \in 0..(Len(all) - 1) :
                ret' = Return(c, r, NoError, SubSeq(all, 1, n), TRUE)
    /\ call' = [call EXCEPT ![c] = Done]
    /\ UNCHANGED <<tmp, dirs, objects, db, committed, last, cluster>>

\* ------------------------------------------ an operation run alone, to its end
Result(err, val) == [err |-> err, val |-> val]

\* GetObject(bucket, key) against the rows and files given.
GetBytes(rows, objs, bucket, key) ==
    IF Select(rows, bucket, key) = {}
    THEN Result(ErrNotFound, <<>>)
    ELSE IF FinalFile(ScanHash(Select(rows, bucket, key))) \in DOMAIN objs
         THEN Result(NoError, Open(objs, FinalFile(ScanHash(Select(rows, bucket, key)))))
         ELSE Result(ErrNotFound, <<>>)

\* HeadObject(bucket, key) against the rows given.
HeadMeta(rows, bucket, key) ==
    IF Select(rows, bucket, key) = {}
    THEN Result(ErrNotFound, <<>>)
    ELSE Result(NoError, ScanMeta(Select(rows, bucket, key), bucket, key))

\* The error of DeleteObject(bucket, key) against the rows given.
DeleteErr(rows, bucket, key) ==
    IF Cardinality(rows \ Delete(rows, bucket, key)) = 0 THEN ErrNotFound ELSE NoError

\* The process dies in the middle of a Put: nothing further runs, nothing is undone.
Crash(c) ==
    /\ call[c].op = "put" /\ call[c].pc \in {"copy", "rename", "upsert"}
    /\ call' = [call EXCEPT ![c] = Done]
    /\ UNCHANGED <<tmp, dirs, objects, db, ret, committed, last, cluster>>

Next ==
    \/ \E c \in Calls, b \in Buckets, k \in Keys, body \in Payloads :
            PutCreate(c, b, k, body)
    \/ \E c \in Calls : PutCopy(c)
    \/ \E c \in Calls : PutMkdir(c)
    \/ \E c \in Calls : PutRename(c)
    \/ \E c \in Calls : PutUpsert(c)
    \/ \E c \in Calls, b \in Buckets, k \in Keys : GetQuery(c, b, k)
    \/ \E c \in Calls : GetOpen(c)
    \/ \E c \in Calls, b \in Buckets, k \in Keys : DeleteObject(c, b, k)
    \/ \E c \in Calls, b \in Buckets, k \in Keys : HeadObject(c, b, k)
    \/ \E c \in Calls, b \in Buckets \cup {<<>>} : ListObjects(c, b)
    \/ \E c \in Calls : Crash(c)

Spec == Init /\ [][Next]_vars

\* ------------------------------------------------------------ HTTP handlers
\* What a handler writes: the status, the headers it sets, the body.
Response(status, header, body) == [status |-> status, header |-> header, body |-> body]
NoHeader == [x \in {} |-> <<>>]

\* string(n) of an integer n: the UTF-8 encoding of the code point n, of
\* U+FFFD when n is not a valid code point.
RuneString(n) ==
    IF n < 0 \/ n > 1114111 \/ (n >= 55296 /\ n <= 57343) THEN <<239, 191, 189>>
    ELSE IF n < 128 THEN <<n>>
    ELSE IF n < 2048 THEN <<192 + (n \div 64), 128 + (n % 64)>>
    ELSE IF n < 65536
         THEN <<224 + (n \div 4096), 128 + ((n \div 64) % 64), 128 + (n % 64)>>
    ELSE <<240 + (n \div 262144), 128 + ((n \div 4096) % 64),
           128 + ((n \div 64) % 64), 128 + (n % 64)>>

\* putObject: 500 on any error, else 200 with the hash as ETag.
putObject(res) ==
    IF res.err # NoError
    THEN Response(500, NoHeader, res.err)
    ELSE Response(200, [ETag |-> res.val], [etag |-> res.val])

\* getObject: 404 on any error, else the bytes of the reader.
getObject(res) ==
    IF res.err # NoError
    THEN Response(404, NoHeader, res.err)
    ELSE Response(200, NoHeader, res.val)

\* deleteObject: 404 on ErrNotFound, 500 on any other error.
deleteObject(res) ==
    IF res.err = ErrNotFound THEN Response(404, NoHeader, "Object not found")
    ELSE IF res.err # NoError THEN Response(500, NoHeader, res.err)
    ELSE Response(200, NoHeader, "Delete successful")

\* headObject: 404 on any error, else Content-Length and ETag from the record.
headObject(res) ==
    IF res.err # NoError
    THEN Response(404, NoHeader, "Object not found")
    ELSE Response(200,
                  [ContentLength |-> RuneString(res.val.Size), ETag |-> res.val.Hash],
                  <<>>)

\* listObjects: 500 on any error, else the records as JSON.
listObjects(res) ==
    IF res.err # NoError
    THEN Response(500, NoHeader, res.err)
    ELSE Response(200, NoHeader, res.val)

\* The routes of the server's mux.
Serve(res) ==
    CASE res.op = "put" -> putObject(res)
      [] res.op = "get" -> getObject(res)
      [] res.op = "delete" -> deleteObject(res)
      [] res.op = "head" -> headObject(res)
      [] res.op = "list" -> listObjects(res)

\* ------------------------------------------------- Cluster: the load balancer
BackendError == "Backend error"
Panic == "panic: index out of range"

\* What a client may send: one key in each bucket is enough here.
Targets == {p \in Buckets \X Keys : Len(p[2]) = 1}
HTTPRequests ==
    {Arrive("put", p[1], p[2], body) : p \in Targets, body \in Payloads}
    \cup {Arrive(op, p[1], p[2], <<>>) :
            op \in {"get", "delete", "head"}, p \in Targets}
    \cup {Arrive("list", b, <<>>, <<>>) : b \in Buckets \cup {<<>>}}

\* Mutant: pickNode without mu.Lock().
HandleRequestNoLock(r, h) ==
    /\ req[r].pc = "idle"
    /\ IF r = 1 THEN TRUE ELSE req[r - 1].pc # "idle"
    /\ mu' = r
    /\ req' = [req EXCEPT ![r] =
            [ReqIdle EXCEPT !.pc = "locked", !.op = h.op, !.bucket = h.bucket,
                            !.key = h.key, !.body = h.body,
                            !.order = Len(picked) + 1]]
    /\ picked' = Append(picked, "")
    /\ UNCHANGED <<store, nodes, currentIndex, data>>

\* handleRequest up to mu.Lock() in pickNode: the request arrives and takes
\* the mutex once it is free.
HandleRequest(r, h) ==
    /\ req[r].pc = "idle"
    /\ IF r = 1 THEN TRUE ELSE req[r - 1].pc # "idle"
    /\ mu = 0
    /\ mu' = r
    /\ req' = [req EXCEPT ![r] =
            [ReqIdle EXCEPT !.pc = "locked", !.op = h.op, !.bucket = h.bucket,
                            !.key = h.key, !.body = h.body,
                            !.order = Len(picked) + 1]]
    /\ picked' = Append(picked, "")
    /\ UNCHANGED <<store, nodes, currentIndex, data>>

\* node := nodes[currentIndex]. An index out of range panics: the deferred
\* mu.Unlock() runs and the server drops the connection.
PickNode(r) ==
    /\ req[r].pc = "locked"
    /\ IF currentIndex + 1 \in DOMAIN nodes
       THEN /\ req' = [req EXCEPT ![r].pc = "advance", ![r].node = nodes[currentIndex + 1]]
            /\ picked' = [picked EXCEPT ![req[r].order] = nodes[currentIndex + 1]]
            /\ UNCHANGED <<mu, ret>>
       ELSE /\ req' = [req EXCEPT ![r] = ReqDone]
            /\ mu' = 0
            /\ ret' = Return(r, Arrive(req[r].op, req[r].bucket, req[r].key, req[r].body),
                             Panic, <<>>, FALSE)
            /\ picked' = picked
    /\ UNCHANGED <<tmp, dirs, objects, db, call, committed, last, nodes, currentIndex, data>>

\* currentIndex = (currentIndex + 1) % len(nodes); return node, which runs the
\* deferred mu.Unlock().
PickNodeReturn(r) ==
    /\ req[r].pc = "advance"
    /\ currentIndex' = (currentIndex + 1) % Len(nodes)
    /\ mu' = 0
    /\ req' = [req EXCEPT ![r].pc = "proxy"]
    /\ UNCHANGED <<store, nodes, picked, data>>

\* storage.PutObject run to its end on the files and rows of one DATA_DIR.
PutObjectOn(s, bucket, key, body) ==
    Store(Rename(s.objects, TmpFile(0) :> body, TmpFile(0), FinalFile(Hash(body))),
          Upsert(s.db, bucket, key, Hash(body), Len(body)))

\* The request is forwarded to the node picked; that node serves it from its
\* own DATA_DIR and the result is relayed. A node that cannot be reached is 502.
Proxy(r) ==
    /\ req[r].pc = "proxy"
    /\ LET q == req[r]
           s == data[DataDir(q.node)]
           a == IF q.op = "list"
                THEN Arrive(q.op, q.bucket, q.key, q.body)
                ELSE [Arrive(q.op, q.bucket, q.key, q.body)
                        EXCEPT !.seen = last[<<q.bucket, q.key>>]]
       IN  \/ /\ q.op = "put"
              /\ data' = [data EXCEPT ![DataDir(q.node)] =
                            PutObjectOn(s, q.bucket, q.key, q.body)]
              /\ last' = [last EXCEPT ![<<q.bucket, q.key>>] = Put(q.body)]
              /\ ret' = Return(r, a, NoError, Hash(q.body), FALSE)
           \/ /\ q.op = "get"
              /\ ret' = Return(r, a, GetBytes(s.db, s.objects, q.bucket, q.key).err,
                               GetBytes(s.db, s.objects, q.bucket, q.key).val, FALSE)
              /\ UNCHANGED <<data, last>>
           \/ /\ q.op = "head"
              /\ ret' = Return(r, a, HeadMeta(s.db, q.bucket, q.key).err,
                               HeadMeta(s.db, q.bucket, q.key).val, FALSE)
              /\ UNCHANGED <<data, last>>
           \/ /\ q.op = "delete"
              /\ data' = [data EXCEPT ![DataDir(q.node)] =
                            Store(s.objects, Delete(s.db, q.bucket, q.key))]
              /\ last' = IF DeleteErr(s.db, q.bucket, q.key) = NoError
                         THEN [last EXCEPT ![<<q.bucket, q.key>>] = Deleted]
                         ELSE last
              /\ ret' = Return(r, a, DeleteErr(s.db, q.bucket, q.key), <<>>, FALSE)
           \/ /\ q.op = "list"
              /\ ret' = Return(r, a, NoError, ScanAll(ListQuery(s.db, q.bucket)), FALSE)
              /\ UNCHANGED <<data, last>>
           \/ /\ ret' = Return(r, a, BackendError, <<>>, TRUE)
              /\ UNCHANGED <<data, last>>
    /\ req' = [req EXCEPT ![r] = ReqDone]
    /\ UNCHANGED <<tmp, dirs, objects, db, call, committed, nodes, currentIndex, mu, picked>>

\* What the client of the load balancer receives for the request that
\* returned last.
Relay(res) ==
    IF res.err = BackendError THEN Response(502, NoHeader, res.err)
    ELSE IF res.err = Panic THEN Response(0, NoHeader, res.err)
    ELSE Serve(res)

ClusterInit == StoreInit /\ \E list \in NodeLists : LoadBalancerInit(list)

ClusterNext ==
    \/ \E r \in Requests, h \in HTTPRequests : HandleRequest(r, h)
    \/ \E r \in Requests : PickNode(r)
    \/ \E r \in Requests : PickNodeReturn(r)
    \/ \E r \in Requests : Proxy(r)

Cluster == ClusterInit /\ [][ClusterNext]_vars

\* ------------------------------------------------------------------ claims
Pairs == Buckets \X Keys
RowsOf(p) == Select(db, p[1], p[2])
Returned == ret' # ret

\* C1: in every reachable state, with Puts in flight or dead at any step, every
\* row of the table names a hash whose blob file exists at
\* objects/<hash[0:2]>/<hash[2:4]>/<hash>.
RecordsHaveBlobs == \A r \in db : FinalFile(r.hash) \in DOMAIN objects

\* A row exists while one Put has died leaving its temp file and another is
\* about to rename.
RecordsHaveBlobsWitness ==
    /\ db # {}
    /\ \E c \in Calls : call[c].pc = "done" /\ TmpFile(c) \in DOMAIN tmp
    /\ \E c \in InFlight : call[c].op = "put" /\ call[c].pc = "rename"

\* C2: a Get whose lookup finds the pair as the Put of body b left it (no other
\* Put or Delete on the pair since) succeeds and yields exactly b, whatever ran
\* on other pairs meanwhile, unless the file system or database fails under the Get.
RoundTrip ==
    (ret.op = "get" /\ ret.seen.what = "put" /\ ~ret.fault)
        => (ret.err = NoError /\ ret.val = ret.seen.body)

\* A Get returned the non-empty body that was Put, while a Put to another pair
\* is in flight.
RoundTripWitness ==
    /\ ret.op = "get" /\ ret.err = NoError
    /\ ret.val = ret.seen.body /\ ret.val # <<>>
    /\ \E c \in InFlight :
            call[c].op = "put" /\ <<call[c].bucket, call[c].key>> # <<ret.bucket, ret.key>>

\* C3: under any interleaving of Puts, a pair that was Put has exactly one row,
\* and the hash and the size of that row are both those of the body of one Put:
\* the one whose upsert ran last.
OneWholeRecord ==
    \A p \in Pairs :
        /\ Cardinality(RowsOf(p)) <= 1
        /\ last[p].what = "put" => Cardinality(RowsOf(p)) = 1
        /\ \A r \in RowsOf(p) :
                /\ last[p].what = "put"
                /\ r.hash = Hash(last[p].body)
                /\ r.size = Len(last[p].body)

\* Two overlapping Puts to one pair with bodies of different lengths: the later
\* arrival has returned, the earlier one is about to upsert.
OneWholeRecordWitness ==
    \E c \in InFlight :
        /\ call[c].op = "put" /\ call[c].pc = "upsert"
        /\ ret.op = "put" /\ ret.err = NoError /\ ret.id > c
        /\ ret.bucket = call[c].bucket /\ ret.key = call[c].key
        /\ Len(ret.body) # Len(call[c].body)

\* C4: a Put returns an error only when the file system or the database fails
\* under it, never because the blob it commits is already there; and every blob
\* file holds exactly the bytes whose digest names it, in every state.
IdempotentCommit ==
    /\ (ret.op = "put" /\ ret.err # NoError) => ret.fault
    /\ \A path \in DOMAIN objects : Hash(objects[path]) = path[3]

\* Two Puts of the same content have both renamed onto the same path.
IdempotentCommitWitness ==
    \E c, d \in InFlight :
        /\ c # d
        /\ call[c].op = "put" /\ call[c].pc = "upsert"
        /\ call[d].op = "put" /\ call[d].pc = "upsert"
        /\ call[c].hash = call[d].hash
        /\ objects[FinalFile(call[c].hash)] = call[c].body

\* C5: there are as many blob files as distinct bodies committed, each at the
\* path of its digest; every row carries the digest of the body last Put under
\* its name, and a successful Put returns the digest of its body, so equal
\* bodies get equal hashes and one file.
Deduplication ==
    /\ Cardinality(DOMAIN objects) = Cardinality(committed)
    /\ \A b \in committed : FinalFile(Hash(b)) \in DOMAIN objects
    /\ \A r \in db : r.hash = Hash(last[<<r.bucket, r.key>>].body)
    /\ (ret.op = "put" /\ ret.err = NoError) => ret.val = Hash(ret.body)

\* Two names carry the same hash and one blob file exists.
DeduplicationWitness ==
    /\ \E r, s \in db : r.hash = s.hash /\ <<r.bucket, r.key>> # <<s.bucket, s.key>>
    /\ Cardinality(DOMAIN objects) = 1

\* C6: when a Put returns successfully, the hash it returns is the digest of
\* exactly the bytes of its stream, and the row of its pair holds that hash and
\* the number of those bytes.
ContentAddressing ==
    [][(Returned /\ ret'.op = "put" /\ ret'.err = NoError) =>
        /\ ret'.val = Hash(ret'.body)
        /\ Select(db', ret'.bucket, ret'.key) =
                {Row(ret'.bucket, ret'.key, Hash(ret'.body), Len(ret'.body))}]_vars

\* A Put of a body of the greatest length has returned its hash and its row is there.
ContentAddressingWitness ==
    /\ ret.op = "put" /\ ret.err = NoError /\ Len(ret.body) = MaxLen
    /\ Row(ret.bucket, ret.key, ret.val, MaxLen) \in db

\* C7: once a Delete of a pair succeeded and until a later Put to it, Get and
\* Delete of the pair fail with ErrNotFound; and a Delete of a pair that has no
\* record fails with ErrNotFound and changes nothing.
DeleteSemantics ==
    [][/\ \A p \in Pairs :
            last'[p] = Deleted =>
                /\ GetBytes(db', objects', p[1], p[2]).err = ErrNotFound
                /\ DeleteErr(db', p[1], p[2]) = ErrNotFound
       /\ (Returned /\ ret'.op = "get" /\ ret'.seen = Deleted)
            => ret'.err = ErrNotFound
       /\ (Returned /\ ret'.op = "delete" /\ ret'.seen.what # "put" /\ ~ret'.fault)
            => (ret'.err = ErrNotFound /\ UNCHANGED <<tmp, dirs, objects, db>>)
       /\ (Returned /\ ret'.op = "delete" /\ ret'.seen.what = "put" /\ ~ret'.fault)
            => (ret'.err = NoError /\ Select(db', ret'.bucket, ret'.key) = {})]_vars

\* A second Delete of a deleted pair has returned ErrNotFound.
DeleteSemanticsWitness ==
    /\ ret.op = "delete" /\ ret.seen = Deleted /\ ret.err = ErrNotFound
    /\ ~ret.fault

\* C8: when a Put of v2 completes on a pair that held v1, a Get of the pair
\* yields v2, a Head yields the size and hash of v2, the blob of v1 is still
\* there, and every other name whose record carries v1 still Gets v1.
Overwrite ==
    [][(Returned /\ ret'.op = "put" /\ ret'.err = NoError /\ ret'.seen.what = "put") =>
        /\ GetBytes(db', objects', ret'.bucket, ret'.key) = Result(NoError, ret'.body)
        /\ HeadMeta(db', ret'.bucket, ret'.key) =
                Result(NoError, ObjectMeta(ret'.bucket, ret'.key,
                                           Hash(ret'.body), Len(ret'.body)))
        /\ FinalFile(Hash(ret'.seen.body)) \in DOMAIN objects'
        /\ objects'[FinalFile(Hash(ret'.seen.body))] = ret'.seen.body
        /\ \A q \in Pairs \ {<<ret'.bucket, ret'.key>>} :
                last'[q] = Put(ret'.seen.body) =>
                    GetBytes(db', objects', q[1], q[2]) = Result(NoError, ret'.seen.body)]_vars

\* v2 has replaced a different v1 under one name while another name still
\* carries v1.
OverwriteWitness ==
    /\ ret.op = "put" /\ ret.err = NoError
    /\ ret.seen.what = "put" /\ ret.seen.body # ret.body
    /\ last[<<ret.bucket, ret.key>>] = Put(ret.body)
    /\ \E q \in Pairs \ {<<ret.bucket, ret.key>>} : last[q] = Put(ret.seen.body)

\* The rows a listing with this filter is to return.
Live(rows, bucket) ==
    IF bucket = <<>> THEN rows ELSE {r \in rows : r.bucket = bucket}

\* C9: a listing under which the database does not fail returns each live
\* record exactly once, all of them without a filter and exactly those of
\* bucket b with filter b, in ascending order of (bucket, key).
Listing ==
    [][(Returned /\ ret'.op = "list" /\ ret'.err = NoError /\ ~ret'.fault) =>
        /\ Len(ret'.val) = Cardinality(Live(db, ret'.bucket))
        /\ {ret'.val[i] : i \in 1..Len(ret'.val)} =
                {ObjectMeta(r.bucket, r.key, r.hash, r.size) :
                    r \in Live(db, ret'.bucket)}
        /\ \A i, j \in 1..Len(ret'.val) :
                i < j =>
                    \/ StrLess(ret'.val[i].Bucket, ret'.val[j].Bucket)
                    \/ /\ ret'.val[i].Bucket = ret'.val[j].Bucket
                       /\ StrLess(ret'.val[i].Key, ret'.val[j].Key)]_vars

\* An unfiltered listing returned two records whose keys descend while their
\* buckets ascend.
ListingWitness ==
    /\ ret.op = "list" /\ ret.err = NoError /\ ~ret.fault /\ ret.bucket = <<>>
    /\ Len(ret.val) = 2
    /\ StrLess(ret.val[2].Key, ret.val[1].Key)

\* C10: a Get that found a row but could not open the blob reports something
\* other than the ErrNotFound it reports when there is no row.
IntegrityViolationDistinct ==
    (ret.op = "get" /\ ret.hash # <<>> /\ ret.err # NoError) => ret.err # ErrNotFound

\* C11: every node serves from the same blob store and the same table: a Get
\* or a Head that the load balancer relays for a pair whose last successful
\* change, through whichever node, was a Put of body b, answers 200, the Get
\* with exactly b, whichever node serves it.
SharedStore ==
    (ret.op \in {"get", "head"} /\ ret.seen.what = "put" /\ ~ret.fault) =>
        /\ Relay(ret).status = 200
        /\ ret.op = "get" => Relay(ret).body = ret.seen.body

\* The requests inside pickNode, between mu.Lock() and the deferred mu.Unlock().
InPickNode == {r \in Requests : req[r].pc \in {"locked", "advance"}}

\* C12: over a non-empty backend list of length n, the i-th call of pickNode
\* in the order the mutex was taken (i = 0, 1, 2, ...) reads nodes[i mod n];
\* no two calls are inside pickNode at once; and in any n*k consecutive picks
\* every backend is picked exactly k times.
RoundRobin ==
    nodes # <<>> =>
        /\ \A i \in 1..Len(picked) :
                picked[i] # "" => picked[i] = nodes[((i - 1) % Len(nodes)) + 1]
        /\ Cardinality(InPickNode) <= 1
        /\ \A k \in 1..MaxRequests, from \in 1..Len(picked) :
                LET window == from..(from + Len(nodes) * k - 1)
                IN  (window \subseteq DOMAIN picked /\ \A i \in window : picked[i] # "")
                        => \A j \in DOMAIN nodes :
                                Cardinality({i \in window : picked[i] = nodes[j]}) = k

\* Over two backends the third pick has wrapped around to the first while the
\* two earlier requests are still being proxied.
RoundRobinWitness ==
    /\ Len(nodes) = 2
    /\ Len(picked) = 3 /\ picked[3] = nodes[1]
    /\ Cardinality({r \in Requests : req[r].pc = "proxy"}) = 2

\* The decimal representation of a natural number, as ASCII digits.
RECURSIVE Itoa(_)
Itoa(n) == IF n < 10 THEN <<48 + n>> ELSE Itoa(n \div 10) \o <<48 + (n % 10)>>

\* C13: HEAD of a pair whose record is that of a Put of body b answers 200
\* with Content-Length the decimal digits of the size of b and ETag the hash
\* of b; HEAD of a pair without a record answers 404.
HeadResponse ==
    (ret.op = "head" /\ ~ret.fault) =>
        IF ret.seen.what = "put"
        THEN /\ headObject(ret).status = 200
             /\ headObject(ret).header.ContentLength = Itoa(Len(ret.seen.body))
             /\ headObject(ret).header.ETag = Hash(ret.seen.body)
        ELSE headObject(ret).status = 404

\* C14: at every step, with uploads in flight, failed or dead, every file under
\* objects/ sits at the path of the digest of its bytes and holds the whole
\* body of the Put that committed it; a file under objects/ stays, with the
\* same bytes; whatever is partial is a temp file.
BlobIntegrity ==
    [][/\ \A path \in DOMAIN objects' :
            /\ path = FinalFile(Hash(objects'[path]))
            /\ objects'[path] \in committed'
       /\ \A c \in Calls :
            (call'[c].op = "put" /\ call'[c].pc = "upsert") =>
                /\ FinalFile(Hash(call'[c].body)) \in DOMAIN objects'
                /\ objects'[FinalFile(Hash(call'[c].body))] = call'[c].body
       /\ \A path \in DOMAIN objects :
            path \in DOMAIN objects' /\ objects'[path] = objects[path]]_vars

\* A temp file holds less than the body being copied into it while the blob
\* of that very body is already in place, and another Put has died leaving its
\* temp file behind.
BlobIntegrityWitness ==
    \E c \in InFlight :
        /\ call[c].op = "put" /\ call[c].pc = "copy"
        /\ Len(tmp[TmpFile(c)]) < Len(call[c].body)
        /\ FinalFile(Hash(call[c].body)) \in DOMAIN objects
        /\ \E d \in Calls : call[d].pc = "done" /\ TmpFile(d) \in DOMAIN tmp

\* C15: the step at which a Put returns an error, whichever statement failed,
\* changes no row, and a Get of its pair then yields what the pair held
\* before: the body last Put under it, ErrNotFound when there is none. Rows
\* change only at the step a Put or a Delete returns without error.
FailedPutKeepsIndex ==
    [][/\ (Returned /\ ret'.op = "put" /\ ret'.err # NoError) =>
            /\ db' = db
            /\ LET bucket == ret'.bucket
                   key == ret'.key
               IN  GetBytes(db', objects', bucket, key) =
                        IF last[<<bucket, key>>].what = "put"
                        THEN Result(NoError, last[<<bucket, key>>].body)
                        ELSE Result(ErrNotFound, <<>>)
       /\ db' # db =>
            (Returned /\ ret'.op \in {"put", "delete"} /\ ret'.err = NoError)]_vars

\* A Put whose upsert failed has returned: its blob is in place, and its pair
\* still carries the other body Put before.
FailedPutKeepsIndexWitness ==
    /\ ret.op = "put" /\ ret.err = IndexError
    /\ FinalFile(Hash(ret.body)) \in DOMAIN objects
    /\ ret.seen.what = "put" /\ ret.seen.body # ret.body
    /\ last[<<ret.bucket, ret.key>>] = ret.seen
    /\ GetBytes(db, objects, ret.bucket, ret.key) = Result(NoError, ret.seen.body)

\* C16: of two successful Puts to one pair that overlap, the one whose upsert
\* ran last leaves the record, whichever arrived or finished copying first:
\* while no later change of the pair has happened, the pair's row is that of
\* the body of the Put that returned over the other's record, and the blobs of
\* both bodies are in place.
LastWriterWins ==
    (/\ ret.op = "put" /\ ret.err = NoError /\ ret.seen.what = "put"
     /\ last[<<ret.bucket, ret.key>>] = Put(ret.body)) =>
        /\ RowsOf(<<ret.bucket, ret.key>>) =
                {Row(ret.bucket, ret.key, Hash(ret.body), Len(ret.body))}
        /\ \A b \in {ret.body, ret.seen.body} :
                /\ FinalFile(Hash(b)) \in DOMAIN objects
                /\ objects[FinalFile(Hash(b))] = b

\* The first request to arrive upserted last: it returned over the record of
\* the second request, which arrived after it and has returned before it, with
\* another body.
LastWriterWinsWitness ==
    /\ ret.op = "put" /\ ret.err = NoError /\ ret.id = 1
    /\ ret.seen.what = "put" /\ ret.seen.body # ret.body
    /\ call[2].pc = "done" /\ call[3].pc = "idle"
    /\ last[<<ret.bucket, ret.key>>] = Put(ret.body)

\* C17: the step at which a Delete returns removes at most the row of its own
\* pair and touches no file, so every other pair, one that carries the same
\* hash included, still Gets the body last Put under it; and no step of any
\* operation, an overwriting Put included, takes a file out of objects/.
DeleteFrame ==
    [][/\ (Returned /\ ret'.op = "delete") =>
            /\ db \ db' \subseteq Select(db, ret'.bucket, ret'.key)
            /\ db' \subseteq db
            /\ UNCHANGED <<tmp, dirs, objects>>
            /\ \A q \in Pairs \ {<<ret'.bucket, ret'.key>>} :
                    /\ RowsOf(q) = Select(db', q[1], q[2])
                    /\ last[q].what = "put" =>
                            GetBytes(db', objects', q[1], q[2]) =
                                Result(NoError, last[q].body)
       /\ DOMAIN objects \subseteq DOMAIN objects'
       /\ Cardinality(DOMAIN objects') >= Cardinality(DOMAIN objects)]_vars

\* A Delete has removed the record of one name while another name carries the
\* same hash and still Gets the body.
DeleteFrameWitness ==
    /\ ret.op = "delete" /\ ret.err = NoError /\ ret.seen.what = "put"
    /\ RowsOf(<<ret.bucket, ret.key>>) = {}
    /\ \E q \in Pairs \ {<<ret.bucket, ret.key>>} :
            /\ last[q] = Put(ret.seen.body)
            /\ GetBytes(db, objects, q[1], q[2]) = Result(NoError, ret.seen.body)

\* C18: a Get or a Head under which the read of the table failed reports an
\* error other than ErrNotFound; at the lookup they report ErrNotFound only
\* when the read went through and found no record.
IndexFailureDistinct ==
    /\ (ret.op \in {"get", "head"} /\ ret.fault /\ ret.hash = <<>>)
            => ret.err # ErrNotFound
    /\ (ret.op \in {"get", "head"} /\ ret.err = ErrNotFound /\ ret.hash = <<>>)
            => (~ret.fault /\ ret.seen.what # "put")

\* C19: once a Put has returned, with its hash or with the error of any step,
\* no temp file of its own is left; and while a Put is between os.Create and
\* os.Rename its temp file is there and holds what it has copied so far,
\* whatever other calls did meanwhile.
NoTempLeft ==
    /\ ret.op = "put" => TmpFile(ret.id) \notin DOMAIN tmp
    /\ \A c \in InFlight :
            (call[c].op = "put" /\ call[c].pc \in {"copy", "rename"}) =>
                /\ TmpFile(c) \in DOMAIN tmp
                /\ tmp[TmpFile(c)] = SubSeq(call[c].body, 1, call[c].size)

\* A Put of a non-empty body has returned an error, while a Put that arrived
\* before it has copied its body and is about to rename its temp file.
NoTempLeftWitness ==
    /\ ret.op = "put" /\ ret.err = IOError /\ ret.body # <<>>
    /\ \E c \in InFlight :
            /\ call[c].op = "put" /\ call[c].pc = "rename" /\ call[c].body # <<>>
            /\ c < ret.id

\* C20: a Get that found the record of its pair holds the hash of one whole
\* version: from its lookup on, whatever Puts overwrite the pair meanwhile,
\* the blob of that hash is in place with exactly the bytes of that version,
\* so the Get, unless the file system fails under it, returns those bytes:
\* never an error, never part of a body, never bytes of two bodies.
ConcurrentGet ==
    /\ \A c \in InFlight :
            call[c].op = "get" =>
                /\ call[c].seen.what = "put"
                /\ call[c].hash = Hash(call[c].seen.body)
                /\ FinalFile(call[c].hash) \in DOMAIN objects
                /\ objects[FinalFile(call[c].hash)] = call[c].seen.body
    /\ (ret.op = "get" /\ ret.hash # <<>> /\ ~ret.fault) =>
            /\ ret.err = NoError
            /\ Hash(ret.val) = ret.hash
            /\ ret.val = ret.seen.body

\* A Get has returned the whole first version although a Put of another body
\* replaced the record of the pair between the Get's lookup and its return.
ConcurrentGetWitness ==
    /\ ret.op = "get" /\ ret.err = NoError
    /\ ret.val = ret.seen.body /\ ret.val # <<>>
    /\ last[<<ret.bucket, ret.key>>].what = "put"
    /\ last[<<ret.bucket, ret.key>>] # ret.seen

\* C21: with the backend list the source declares, in every state of the load
\* balancer 0 <= currentIndex < len(nodes), no call of pickNode panics on an
\* index out of range or a division by zero, and whatever pickNode read is
\* one of the addresses of the list.
IndexInRange ==
    nodes = ConfiguredNodes =>
        /\ 0 <= currentIndex /\ currentIndex < Len(nodes)
        /\ ret.err # Panic
        /\ \A i \in DOMAIN picked :
                picked[i] # "" => \E j \in DOMAIN nodes : picked[i] = nodes[j]
====
